---- MODULE Spec2Model ----
(***************************************************************************)
(* The boundary shim of src/shim/src/lib.rs: fourteen exported functions,  *)
(* each of which forwards to one function of the linked library git2.      *)
(*                                                                         *)
(* The shim's functions are translated from their bodies.  The library is  *)
(* only declared in the source (the extern "C" block); its behaviour is    *)
(* modelled from the specification: handles are allocation instances that  *)
(* are open from a successful create to their free, a call outside the     *)
(* library's contract (before init, on a freed handle) is undefined and    *)
(* yields any result or ends the process.                                  *)
(***************************************************************************)
EXTENDS Integers, Sequences, FiniteSets, TLC

\* ------------------------------------------------------------------ bounds
MaxInit == 1
MaxHandles == 2
ChainLen == 2

\* ------------------------------------------------------------- environment
\* The file system the library looks at: one path that names no repository,
\* a work tree with commits on branch main and one modified file, and a
\* freshly initialised bare repository without commits.
Paths == {"nope", "work", "bare"}
Exists(p) == p # "nope"
IsBare(p) == p = "bare"
HasCommits(p) == p = "work"
Branch(p) == IF p = "work" THEN "main" ELSE "trunk"
EntryCount(p) == 1

\* The commit graph of the repository with commits: the chain
\* 1 <- 2 <- ... <- ChainLen; Anc(c) is what is reachable from commit c.
Oids == 1..ChainLen
Anc(c) == 1..c

\* What a call outside the library's contract can return as a status code:
\* a negative, a zero and a positive value.
Codes == {-1, 0, 1}

\* The caller's cells that out-pointers point to. Those that hold handles
\* and the options record outlive the calls and start as 0. The count cells
\* are variables local to the call that passes them (qAhead and qBehind
\* are the second thread's): every call starts with them unwritten.
Cells == {"pRepo", "pRef", "pList", "pOpts"}
CountCells == {"pAhead", "pBehind", "qAhead", "qBehind"}
Garbage == ChainLen + 2
InitMem == [c \in Cells |-> 0]
Unwritten == [c \in CountCells |-> Garbage]

\* The library's initialisation count, whether the process has ended, the
\* handles ever allocated (a handle is its index), the caller's cells, the
\* count cells as the last call left them, the library calls made by the
\* current shim call, and the last shim call.
VARIABLES inits, crashed, handles, mem, counts, log, last

\* Two threads calling the shim: where each is, the call it made (the
\* parameters in its own frame) and the value it got back.
VARIABLES pc, frame, res

vars == <<inits, crashed, handles, mem, counts, log, last, pc, frame, res>>

\* ----------------------------------------------------------------- library
\* The state as one value, and the state a call starts in: log is the calls
\* made to the library during the current shim call.
Reached == [inits |-> inits, crashed |-> crashed, handles |-> handles,
            mem |-> mem, counts |-> counts, log |-> <<>>]
World == [Reached EXCEPT !.counts = Unwritten]

Handle(kind, path, parent) ==
    [kind |-> kind, st |-> "open", path |-> path, parent |-> parent]

IsOpen(w, h) == h \in 1..Len(w.handles) /\ w.handles[h].st = "open"

\* A handle may be used: the library is initialised, the handle is open and
\* so is the repository it was derived from.
Usable(w, h) ==
    /\ w.inits > 0
    /\ IsOpen(w, h)
    /\ (w.handles[h].parent # 0 => IsOpen(w, w.handles[h].parent))

RepoPath(w, h) ==
    IF w.handles[h].parent = 0 THEN w.handles[h].path
    ELSE w.handles[w.handles[h].parent].path

Alloc(w, cell, rec) ==
    [w EXCEPT !.handles = Append(@, rec), !.mem[cell] = Len(w.handles) + 1]

\* The process ends in the call: the call does not return, and the value
\* kept as its result (one of the function's type) is never looked at.
Crash(w, rets) ==
    [ret |-> CHOOSE r \in rets : TRUE, w |-> [w EXCEPT !.crashed = TRUE]]

\* Undefined behaviour of a call that returns a value of the set rets: any
\* of them, or the end of the process.
Undefined(w, rets) == {[ret |-> r, w |-> w] : r \in rets} \cup {Crash(w, rets)}

\* Every call of the library is recorded with its arguments and its result.
Called(fn, args, outs) ==
    {[ret |-> o.ret,
      w |-> [o.w EXCEPT !.log = Append(@, [fn |-> fn, args |-> args, ret |-> o.ret])]]
     : o \in outs}

git_libgit2_init(w) ==
    Called("git_libgit2_init", <<>>,
           {[ret |-> r, w |-> [w EXCEPT !.inits = @ + 1]] : r \in {0, w.inits + 1}}
           \cup {[ret |-> -1, w |-> w]})

git_libgit2_shutdown(w) ==
    Called("git_libgit2_shutdown", <<>>,
           IF w.inits = 0 THEN {[ret |-> -1, w |-> w]}
           ELSE {[ret |-> r, w |-> [w EXCEPT !.inits = @ - 1]] : r \in {0, w.inits - 1}})

git_repository_open(w, out, path) ==
    Called("git_repository_open", <<out, path>>,
           IF w.inits = 0 THEN Undefined(w, Codes)
           ELSE IF ~Exists(path) THEN {[ret |-> -3, w |-> w]}
           ELSE {[ret |-> 0, w |-> Alloc(w, out, Handle("repo", path, 0))]})

Free(w, h) ==
    IF ~IsOpen(w, h) THEN Undefined(w, {"void"})
    ELSE IF ~Usable(w, h)
         THEN {[ret |-> "void", w |-> [w EXCEPT !.handles[h].st = "freed"]],
               Crash(w, {"void"})}
         ELSE {[ret |-> "void", w |-> [w EXCEPT !.handles[h].st = "freed"]]}

git_repository_free(w, repo) ==
    Called("git_repository_free", <<repo>>, Free(w, repo))

git_repository_is_bare(w, repo) ==
    Called("git_repository_is_bare", <<repo>>,
           IF ~Usable(w, repo) THEN Undefined(w, Codes)
           ELSE {[ret |-> IF IsBare(RepoPath(w, repo)) THEN 1 ELSE 0, w |-> w]})

git_repository_workdir(w, repo) ==
    Called("git_repository_workdir", <<repo>>,
           IF ~Usable(w, repo) THEN Undefined(w, {"NULL", "junk"})
           ELSE {[ret |-> IF IsBare(RepoPath(w, repo)) THEN "NULL"
                          ELSE RepoPath(w, repo), w |-> w]})

git_status_options_init(w, opts, version) ==
    Called("git_status_options_init", <<opts, version>>,
           IF version = 1 THEN {[ret |-> 0, w |-> [w EXCEPT !.mem[opts] = version]]}
           ELSE {[ret |-> -1, w |-> w]})

git_status_list_new(w, out, repo, opts) ==
    Called("git_status_list_new", <<out, repo, opts>>,
           IF ~Usable(w, repo) \/ w.mem[opts] = 0 THEN Undefined(w, Codes)
           ELSE IF IsBare(RepoPath(w, repo)) THEN {[ret |-> -1, w |-> w]}
           ELSE {[ret |-> 0, w |-> Alloc(w, out, Handle("list", "", repo))]})

git_status_list_free(w, list) ==
    Called("git_status_list_free", <<list>>, Free(w, list))

git_status_list_entrycount(w, list) ==
    Called("git_status_list_entrycount", <<list>>,
           IF ~Usable(w, list) THEN Undefined(w, {0, 1})
           ELSE {[ret |-> EntryCount(RepoPath(w, list)), w |-> w]})

git_repository_head(w, out, repo) ==
    Called("git_repository_head", <<out, repo>>,
           IF ~Usable(w, repo) THEN Undefined(w, Codes)
           ELSE IF ~HasCommits(RepoPath(w, repo)) THEN {[ret |-> -9, w |-> w]}
           ELSE {[ret |-> 0, w |-> Alloc(w, out, Handle("ref", "", repo))]})

git_reference_free(w, ref) ==
    Called("git_reference_free", <<ref>>, Free(w, ref))

git_reference_shorthand(w, ref) ==
    Called("git_reference_shorthand", <<ref>>,
           IF ~Usable(w, ref) THEN Undefined(w, {"NULL", "junk"})
           ELSE {[ret |-> Branch(RepoPath(w, ref)), w |-> w]})

git_graph_ahead_behind(w, ahead, behind, repo, local, upstream) ==
    Called("git_graph_ahead_behind", <<ahead, behind, repo, local, upstream>>,
           IF ~Usable(w, repo) THEN Undefined(w, Codes)
           ELSE IF ~HasCommits(RepoPath(w, repo)) THEN {[ret |-> -3, w |-> w]}
           ELSE {[ret |-> 0,
                  w |-> [w EXCEPT
                           !.counts[ahead] = Cardinality(Anc(local) \ Anc(upstream)),
                           !.counts[behind] = Cardinality(Anc(upstream) \ Anc(local))]]})

\* -------------------------------------------------------------------- shim
\* Variant: a positive library result is reported as 0.
git2_shim_init_clamped(w) ==
    {[o EXCEPT !.ret = IF o.ret > 0 THEN 0 ELSE o.ret] : o \in git_libgit2_init(w)}

git2_shim_init(w) == git_libgit2_init(w)

git2_shim_shutdown(w) == git_libgit2_shutdown(w)

\* Variant: a failed open is tried once more.
git2_shim_repository_open_retried(w, out, path) ==
    UNION {IF ~o.w.crashed /\ o.ret < 0 THEN git_repository_open(o.w, out, path) ELSE {o}
           : o \in git_repository_open(w, out, path)}

\* Variant: the output location is cleared before the library is called.
git2_shim_repository_open_cleared(w, out, path) ==
    git_repository_open([w EXCEPT !.mem[out] = 0], out, path)

git2_shim_repository_open(w, out, path) == git_repository_open(w, out, path)

git2_shim_repository_free(w, repo) == git_repository_free(w, repo)

\* Variant: the body of the function above it, pasted and not edited.
git2_shim_repository_is_bare_pasted(w, repo) == git_repository_free(w, repo)

\* Variant: the call is answered without the library when it is not initialised.
git2_shim_repository_is_bare_guarded(w, repo) ==
    IF w.inits = 0 THEN {[ret |-> -1, w |-> w]} ELSE git_repository_is_bare(w, repo)

\* Variant: the repository comes from a place all calls share, not from the
\* call's parameter.
git2_shim_repository_is_bare_shared(w, repo) == git_repository_is_bare(w, 1)

git2_shim_repository_is_bare(w, repo) == git_repository_is_bare(w, repo)

git2_shim_repository_workdir(w, repo) == git_repository_workdir(w, repo)

git2_shim_status_options_init(w, opts, version) ==
    git_status_options_init(w, opts, version)

git2_shim_status_list_new(w, out, repo, opts) ==
    git_status_list_new(w, out, repo, opts)

git2_shim_status_list_free(w, list) == git_status_list_free(w, list)

git2_shim_status_list_entrycount(w, list) == git_status_list_entrycount(w, list)

git2_shim_repository_head(w, out, repo) == git_repository_head(w, out, repo)

\* Variant: the forwarding call is missing.
git2_shim_reference_free_dropped(w, ref) == {[ret |-> "void", w |-> w]}

git2_shim_reference_free(w, ref) == git_reference_free(w, ref)

\* Variant: the library's string is dropped and a null pointer returned.
git2_shim_reference_shorthand_null(w, ref) ==
    {[o EXCEPT !.ret = "NULL"] : o \in git_reference_shorthand(w, ref)}

git2_shim_reference_shorthand(w, ref) == git_reference_shorthand(w, ref)

\* Variant: the two output pointers change places.
git2_shim_graph_ahead_behind_swapped(w, ahead, behind, repo, local, upstream) ==
    git_graph_ahead_behind(w, behind, ahead, repo, local, upstream)

git2_shim_graph_ahead_behind(w, ahead, behind, repo, local, upstream) ==
    git_graph_ahead_behind(w, ahead, behind, repo, local, upstream)

\* ------------------------------------------------------------------ caller
\* The pointers of a kind the caller holds: every handle it was ever given.
Ptrs(kind) == {h \in 1..Len(handles) : handles[h].kind = kind}

CanAlloc == Len(handles) < MaxHandles

\* One call of an exported function by the caller: the shim function's
\* outcome becomes the state, and the call is remembered with what held
\* when it was made.
Apply(o, fn, args) ==
    /\ inits' = o.w.inits
    /\ crashed' = o.w.crashed
    /\ handles' = o.w.handles
    /\ mem' = o.w.mem
    /\ counts' = o.w.counts
    /\ log' = o.w.log
    /\ last' = [fn |-> fn, args |-> args, ret |-> o.ret]

Step(fn, args, outs) ==
    /\ ~crashed
    /\ \E o \in outs : Apply(o, fn, args)
    /\ UNCHANGED <<pc, frame, res>>

Threads == {1, 2}
NoCall == [fn |-> "none", args |-> <<>>, ret |-> "void"]

Init ==
    /\ inits = 0
    /\ crashed = FALSE
    /\ handles = <<>>
    /\ mem = InitMem
    /\ counts = Unwritten
    /\ log = <<>>
    /\ last = NoCall
    /\ pc = [t \in Threads |-> "idle"]
    /\ frame = [t \in Threads |-> NoCall]
    /\ res = [t \in Threads |-> "void"]

CallInit == inits < MaxInit /\ Step("git2_shim_init", <<>>, git2_shim_init(World))

CallShutdown == Step("git2_shim_shutdown", <<>>, git2_shim_shutdown(World))

CallRepositoryOpen ==
    /\ CanAlloc
    /\ \E path \in Paths :
         Step("git2_shim_repository_open", <<"pRepo", path>>,
              git2_shim_repository_open(World, "pRepo", path))

CallRepositoryFree ==
    \E repo \in Ptrs("repo") :
        Step("git2_shim_repository_free", <<repo>>,
             git2_shim_repository_free(World, repo))

CallRepositoryIsBare ==
    \E repo \in Ptrs("repo") :
        Step("git2_shim_repository_is_bare", <<repo>>,
             git2_shim_repository_is_bare(World, repo))

CallRepositoryWorkdir ==
    \E repo \in Ptrs("repo") :
        Step("git2_shim_repository_workdir", <<repo>>,
             git2_shim_repository_workdir(World, repo))

CallStatusOptionsInit ==
    \E version \in {1, 2} :
        Step("git2_shim_status_options_init", <<"pOpts", version>>,
             git2_shim_status_options_init(World, "pOpts", version))

CallStatusListNew ==
    /\ CanAlloc
    /\ \E repo \in Ptrs("repo") :
         Step("git2_shim_status_list_new", <<"pList", repo, "pOpts">>,
              git2_shim_status_list_new(World, "pList", repo, "pOpts"))

CallStatusListFree ==
    \E list \in Ptrs("list") :
        Step("git2_shim_status_list_free", <<list>>,
             git2_shim_status_list_free(World, list))

CallStatusListEntrycount ==
    \E list \in Ptrs("list") :
        Step("git2_shim_status_list_entrycount", <<list>>,
             git2_shim_status_list_entrycount(World, list))

CallRepositoryHead ==
    /\ CanAlloc
    /\ \E repo \in Ptrs("repo") :
         Step("git2_shim_repository_head", <<"pRef", repo>>,
              git2_shim_repository_head(World, "pRef", repo))

CallReferenceFree ==
    \E ref \in Ptrs("ref") :
        Step("git2_shim_reference_free", <<ref>>,
             git2_shim_reference_free(World, ref))

CallReferenceShorthand ==
    \E ref \in Ptrs("ref") :
        Step("git2_shim_reference_shorthand", <<ref>>,
             git2_shim_reference_shorthand(World, ref))

CallGraphAheadBehind ==
    \E repo \in Ptrs("repo"), local \in Oids, upstream \in Oids :
        Step("git2_shim_graph_ahead_behind",
             <<"pAhead", "pBehind", repo, local, upstream>>,
             git2_shim_graph_ahead_behind(World, "pAhead", "pBehind", repo, local, upstream))

Next ==
    \/ CallInit
    \/ CallShutdown
    \/ CallRepositoryOpen
    \/ CallRepositoryFree
    \/ CallRepositoryIsBare
    \/ CallRepositoryWorkdir
    \/ CallStatusOptionsInit
    \/ CallStatusListNew
    \/ CallStatusListFree
    \/ CallStatusListEntrycount
    \/ CallRepositoryHead
    \/ CallReferenceFree
    \/ CallReferenceShorthand
    \/ CallGraphAheadBehind

Spec == Init /\ [][Next]_vars

\* ------------------------------------------------------------- two threads
\* The exported function table: the function a call by name runs.
Shim(fn, a, w) ==
    CASE fn = "git2_shim_repository_free" -> git2_shim_repository_free(w, a[1])
      [] fn = "git2_shim_repository_is_bare" -> git2_shim_repository_is_bare(w, a[1])
      [] fn = "git2_shim_repository_workdir" -> git2_shim_repository_workdir(w, a[1])
      [] fn = "git2_shim_graph_ahead_behind" ->
             git2_shim_graph_ahead_behind(w, a[1], a[2], a[3], a[4], a[5])

\* Each thread has opened a repository of its own (thread t holds handle t)
\* and has its own cells for the counts.
OwnRepo(t) == t
AheadCell(t) == IF t = 1 THEN "pAhead" ELSE "qAhead"
BehindCell(t) == IF t = 1 THEN "pBehind" ELSE "qBehind"
OwnCells(t) == {AheadCell(t), BehindCell(t)}

InitConc ==
    /\ inits = 1
    /\ crashed = FALSE
    /\ \E p1 \in {"work", "bare"}, p2 \in {"work", "bare"} :
         handles = <<Handle("repo", p1, 0), Handle("repo", p2, 0)>>
    /\ mem = [InitMem EXCEPT !["pRepo"] = 2]
    /\ counts = Unwritten
    /\ log = <<>>
    /\ last = NoCall
    /\ pc = [t \in Threads |-> "idle"]
    /\ frame = [t \in Threads |-> NoCall]
    /\ res = [t \in Threads |-> "void"]

\* Thread t calls an exported function on its own repository: the call's
\* parameters are in the thread's frame.
Enter(t, fn, args) ==
    /\ pc[t] = "idle"
    /\ IsOpen(World, OwnRepo(t))
    /\ frame' = [frame EXCEPT ![t] = [fn |-> fn, args |-> args, ret |-> "void"]]
    /\ pc' = [pc EXCEPT ![t] = "entered"]
    /\ UNCHANGED <<inits, crashed, handles, mem, counts, log, last, res>>

EnterRepositoryFree(t) ==
    Enter(t, "git2_shim_repository_free", <<OwnRepo(t)>>)

EnterRepositoryIsBare(t) ==
    Enter(t, "git2_shim_repository_is_bare", <<OwnRepo(t)>>)

EnterRepositoryWorkdir(t) ==
    Enter(t, "git2_shim_repository_workdir", <<OwnRepo(t)>>)

EnterGraphAheadBehind(t) ==
    \E local \in Oids, upstream \in Oids :
        Enter(t, "git2_shim_graph_ahead_behind",
              <<AheadCell(t), BehindCell(t), OwnRepo(t), local, upstream>>)

\* The body of the exported function runs: its one forwarding call, which
\* the library runs atomically with respect to calls on other repositories,
\* and the return to the caller.
Forward(t) ==
    /\ pc[t] = "entered"
    /\ \E o \in Shim(frame[t].fn, frame[t].args, World) :
         /\ Apply(o, frame[t].fn, frame[t].args)
         /\ res' = [res EXCEPT ![t] = o.ret]
    /\ pc' = [pc EXCEPT ![t] = "idle"]
    /\ UNCHANGED frame

NextConc ==
    \E t \in Threads :
        \/ EnterRepositoryFree(t)
        \/ EnterRepositoryIsBare(t)
        \/ EnterRepositoryWorkdir(t)
        \/ EnterGraphAheadBehind(t)
        \/ Forward(t)

SpecConc == InitConc /\ [][NextConc]_vars

\* ------------------------------------------------------- names of the calls
StatusFns ==
    {"git2_shim_init", "git2_shim_shutdown", "git2_shim_repository_open",
     "git2_shim_status_options_init", "git2_shim_status_list_new",
     "git2_shim_repository_head", "git2_shim_graph_ahead_behind"}
CreateFns ==
    {"git2_shim_repository_open", "git2_shim_status_list_new", "git2_shim_repository_head"}
FreeFns ==
    {"git2_shim_repository_free", "git2_shim_status_list_free", "git2_shim_reference_free"}
ReadFns ==
    {"git2_shim_repository_is_bare", "git2_shim_repository_workdir",
     "git2_shim_status_list_entrycount", "git2_shim_reference_shorthand"}
ShimFns == StatusFns \cup FreeFns \cup ReadFns

\* The library function an exported function forwards to.
LibOf(fn) ==
    CASE fn = "git2_shim_init" -> "git_libgit2_init"
      [] fn = "git2_shim_shutdown" -> "git_libgit2_shutdown"
      [] fn = "git2_shim_repository_open" -> "git_repository_open"
      [] fn = "git2_shim_repository_free" -> "git_repository_free"
      [] fn = "git2_shim_repository_is_bare" -> "git_repository_is_bare"
      [] fn = "git2_shim_repository_workdir" -> "git_repository_workdir"
      [] fn = "git2_shim_status_options_init" -> "git_status_options_init"
      [] fn = "git2_shim_status_list_new" -> "git_status_list_new"
      [] fn = "git2_shim_status_list_free" -> "git_status_list_free"
      [] fn = "git2_shim_status_list_entrycount" -> "git_status_list_entrycount"
      [] fn = "git2_shim_repository_head" -> "git_repository_head"
      [] fn = "git2_shim_reference_free" -> "git_reference_free"
      [] fn = "git2_shim_reference_shorthand" -> "git_reference_shorthand"
      [] fn = "git2_shim_graph_ahead_behind" -> "git_graph_ahead_behind"

\* What calling the library directly with the arguments of a shim call
\* yields.
Library(fn, a, w) ==
    CASE fn = "git2_shim_init" -> git_libgit2_init(w)
      [] fn = "git2_shim_shutdown" -> git_libgit2_shutdown(w)
      [] fn = "git2_shim_repository_open" -> git_repository_open(w, a[1], a[2])
      [] fn = "git2_shim_repository_free" -> git_repository_free(w, a[1])
      [] fn = "git2_shim_repository_is_bare" -> git_repository_is_bare(w, a[1])
      [] fn = "git2_shim_repository_workdir" -> git_repository_workdir(w, a[1])
      [] fn = "git2_shim_status_options_init" -> git_status_options_init(w, a[1], a[2])
      [] fn = "git2_shim_status_list_new" -> git_status_list_new(w, a[1], a[2], a[3])
      [] fn = "git2_shim_status_list_free" -> git_status_list_free(w, a[1])
      [] fn = "git2_shim_status_list_entrycount" -> git_status_list_entrycount(w, a[1])
      [] fn = "git2_shim_repository_head" -> git_repository_head(w, a[1], a[2])
      [] fn = "git2_shim_reference_free" -> git_reference_free(w, a[1])
      [] fn = "git2_shim_reference_shorthand" -> git_reference_shorthand(w, a[1])
      [] fn = "git2_shim_graph_ahead_behind" ->
             git_graph_ahead_behind(w, a[1], a[2], a[3], a[4], a[5])

\* The handle a call is made on (0: the call takes none).
HandleArg(fn, a) ==
    CASE fn \in FreeFns \cup ReadFns -> a[1]
      [] fn \in {"git2_shim_status_list_new", "git2_shim_repository_head"} -> a[2]
      [] fn = "git2_shim_graph_ahead_behind" -> a[3]
      [] OTHER -> 0

\* The state of handle h: uninitialized until it is allocated.
St(hs, h) == IF h > Len(hs) THEN "uninitialized" ELSE hs[h].st
Live(hs) == {h \in 1..Len(hs) : hs[h].st = "open"}
KindCreate(k) ==
    CASE k = "repo" -> "git2_shim_repository_open"
      [] k = "ref" -> "git2_shim_repository_head"
      [] k = "list" -> "git2_shim_status_list_new"
KindFree(k) ==
    CASE k = "repo" -> "git2_shim_repository_free"
      [] k = "ref" -> "git2_shim_reference_free"
      [] k = "list" -> "git2_shim_status_list_free"

\* ------------------------------------------------------------------ claims

\* C1: whenever a status-code-returning shim function has returned, the value
\* it returned is the value the library call it made returned: zero,
\* negative or positive, never translated or clamped.
C1_StatusVerbatim ==
    (last.fn \in StatusFns /\ ~crashed) =>
        /\ Len(log) >= 1
        /\ last.ret = log[Len(log)].ret

C1_Witness ==
    /\ last.fn = "git2_shim_init"
    /\ last.ret > 0
    /\ log[1].ret = last.ret

\* C2: every call of an exported function makes exactly one call of the
\* library, to the function that corresponds to it, with the caller's
\* arguments in the same positions; the fourteen functions forward to
\* fourteen different library functions; a failed call is not repeated.
C2_OneForwardingCall ==
    /\ Cardinality({LibOf(f) : f \in ShimFns}) = 14
    /\ last.fn # "none" =>
        /\ Len(log) = 1
        /\ log[1].fn = LibOf(last.fn)
        /\ log[1].args = last.args

C2_Witness ==
    /\ ~crashed
    /\ last.fn = "git2_shim_repository_open"
    /\ last.ret = -3
    /\ Len(log) = 1
    /\ log[1].args = <<"pRepo", "nope">>

\* C3: a handle's state changes only from uninitialized to open, in a
\* successful create call of its kind, and from open to freed, in the free
\* call of its kind made on it; a freed handle stays freed.
C3_HandleLifecycle ==
    [][\A h \in 1..MaxHandles :
          St(handles', h) # St(handles, h) =>
            \/ /\ St(handles, h) = "uninitialized"
               /\ St(handles', h) = "open"
               /\ last'.fn = KindCreate(handles'[h].kind)
               /\ last'.ret = 0
            \/ /\ St(handles, h) = "open"
               /\ St(handles', h) = "freed"
               /\ last'.fn = KindFree(handles[h].kind)
               /\ last'.args = <<h>>]_vars

C3_Witness ==
    /\ Len(handles) = 2
    /\ handles[1].st = "freed"
    /\ handles[2].st = "open"
    /\ last.fn = "git2_shim_repository_is_bare"
    /\ last.args = <<1>>

\* C4: with the library initialised, opening a path that names no
\* repository returns a negative code, leaves the cell behind the output
\* pointer as it was and opens no handle.
C4_OpenMissingPath ==
    [][(/\ last'.fn = "git2_shim_repository_open"
        /\ inits > 0
        /\ ~Exists(last'.args[2])) =>
           /\ last'.ret < 0
           /\ mem'[last'.args[1]] = mem[last'.args[1]]
           /\ handles' = handles]_vars

C4_Witness ==
    /\ ~crashed
    /\ inits > 0
    /\ last.fn = "git2_shim_repository_open"
    /\ last.args[2] = "nope"
    /\ last.ret < 0
    /\ mem["pRepo"] = 1
    /\ handles[1].st = "open"
    /\ Len(handles) = 1

\* C5: on a usable repository, repository_head returns a negative code and
\* creates no handle when the repository has no commits; otherwise it returns
\* 0 and writes a new open reference handle, whose shorthand is the
\* repository's branch name and not null.
C5_HeadUnbornOrBranch ==
    [][(/\ last'.fn = "git2_shim_repository_head"
        /\ Usable(World, last'.args[2])) =>
           IF ~HasCommits(RepoPath(World, last'.args[2]))
           THEN /\ last'.ret < 0
                /\ handles' = handles
           ELSE /\ last'.ret = 0
                /\ Len(handles') = Len(handles) + 1
                /\ mem'[last'.args[1]] = Len(handles')
                /\ handles'[Len(handles')].kind = "ref"
                /\ handles'[Len(handles')].st = "open"
                /\ \A o \in git2_shim_reference_shorthand(World', Len(handles')) :
                      /\ o.ret # "NULL"
                      /\ o.ret = Branch(RepoPath(World, last'.args[2]))]_vars

C5_Witness ==
    /\ ~crashed
    /\ last.fn = "git2_shim_repository_head"
    /\ last.ret = 0
    /\ mem["pRef"] = 2
    /\ handles[2].kind = "ref"
    /\ handles[2].st = "open"
    /\ handles[1].path = "work"

\* C6: a successful create call within the library's contract adds exactly
\* one new live handle and hands it to the caller through the output cell; a
\* failed one adds none; a free call takes the handle passed to it out of
\* the live handles and no other; no other call changes the live handles.
\* (By induction, once every created handle has been freed none is live.)
C6_PairedOwnership ==
    [][~crashed' =>
        CASE last'.fn \in CreateFns ->
               IF /\ (last'.fn = "git2_shim_repository_open" => inits > 0)
                  /\ (last'.fn # "git2_shim_repository_open" => Usable(World, last'.args[2]))
                  /\ (last'.fn = "git2_shim_status_list_new" => mem[last'.args[3]] # 0)
                  /\ last'.ret = 0
               THEN /\ Live(handles') = Live(handles) \cup {Len(handles')}
                    /\ Len(handles') = Len(handles) + 1
                    /\ mem'[last'.args[1]] = Len(handles')
                    /\ handles'[Len(handles')].kind \in {"repo", "ref", "list"}
                    /\ last'.fn = KindCreate(handles'[Len(handles')].kind)
               ELSE Live(handles') = Live(handles)
          [] last'.fn \in FreeFns -> Live(handles') = Live(handles) \ {last'.args[1]}
          [] OTHER -> Live(handles') = Live(handles)]_vars

C6_Witness ==
    /\ Len(handles) = 2
    /\ Live(handles) = {}
    /\ handles[2].kind = "ref"
    /\ last.fn = "git2_shim_repository_free"

\* C7: on a usable repository with commits, graph_ahead_behind returns 0 and
\* writes through the first pointer the number of commits reachable from
\* local and not from upstream, through the second the number reachable from
\* upstream and not from local: (0, 0) for identical OIDs, (N, 0) when local
\* is N commits ahead of upstream.
C7_AheadBehind ==
    (/\ last.fn = "git2_shim_graph_ahead_behind"
     /\ ~crashed
     /\ Usable(World, last.args[3])
     /\ HasCommits(RepoPath(World, last.args[3]))) =>
        LET local == last.args[4]
            upstream == last.args[5]
        IN /\ last.ret = 0
           /\ (local = upstream =>
                 counts[last.args[1]] = 0 /\ counts[last.args[2]] = 0)
           /\ (local >= upstream =>
                 counts[last.args[1]] = local - upstream /\ counts[last.args[2]] = 0)
           /\ (local <= upstream =>
                 counts[last.args[1]] = 0 /\ counts[last.args[2]] = upstream - local)

C7_Witness ==
    /\ ~crashed
    /\ last.fn = "git2_shim_graph_ahead_behind"
    /\ last.ret = 0
    /\ last.args[4] = ChainLen
    /\ last.args[5] = 1
    /\ counts["pAhead"] = ChainLen - 1
    /\ counts["pBehind"] = 0

\* C8: a call made while the library is not initialised, or on a handle that
\* is not open, is forwarded like any other: one library call, to the
\* corresponding function, with the same arguments, and the shim returns
\* what that call returned.
C8_ViolationsForwarded ==
    [][(\/ (last'.fn \notin {"git2_shim_init", "git2_shim_status_options_init"}
            /\ inits = 0)
        \/ (HandleArg(last'.fn, last'.args) # 0
            /\ ~IsOpen(World, HandleArg(last'.fn, last'.args)))) =>
           /\ Len(log') = 1
           /\ log'[1].fn = LibOf(last'.fn)
           /\ log'[1].args = last'.args
           /\ log'[1].ret = last'.ret]_vars

C8_Witness ==
    /\ inits = 0
    /\ last.fn = "git2_shim_repository_is_bare"
    /\ handles[last.args[1]].st = "freed"
    /\ Len(log) = 1
    /\ log[1].fn = "git_repository_is_bare"
    /\ ~crashed

\* The state in which only thread t has made calls: the other thread's
\* repository is open as it was opened.
Alone(t) ==
    [World EXCEPT !.handles = [h \in 1..Len(handles) |->
                                 IF h = OwnRepo(t) THEN handles[h]
                                 ELSE [handles[h] EXCEPT !.st = "open"]]]

C10_Frame ==
    [][/\ last'.fn \in ReadFns =>
            handles' = handles /\ inits' = inits /\ mem' = mem /\ counts' = Unwritten
       /\ last'.fn \in FreeFns =>
            /\ inits' = inits
            /\ mem' = mem
            /\ counts' = Unwritten
            /\ Len(handles') = Len(handles)
            /\ \A h \in 1..Len(handles) :
                 h # last'.args[1] => handles'[h] = handles[h]
            /\ handles'[last'.args[1]] =
                 [handles[last'.args[1]] EXCEPT !.st = handles'[last'.args[1]].st]
       /\ \E o \in Library(last'.fn, last'.args, World) :
            /\ [o.w EXCEPT !.log = <<>>] = Reached'
            /\ o.ret = last'.ret
                  ]_vars

C10_Witness ==
    /\ last.fn = "git2_shim_repository_workdir"
    /\ last.ret = "work"
    /\ inits > 0
    /\ Len(handles) = 2
    /\ Live(handles) = {1, 2}

====
